---- MODULE Spec2Model ----
(***************************************************************************)
(* aiohttp_retry: the retry executor (_RequestContext) driving one logical *)
(* request against an underlying client, under a retry policy              *)
(* (RetryOptionsBase / ExponentialRetry), and the facade (RetryClient) that *)
(* builds the executor from a verb call.                                   *)
(*                                                                         *)
(* Durations are counted in tenths of a second (0.1 s = 1).                *)
(***************************************************************************)
EXTENDS Integers, Sequences, FiniteSets, TLC

\* ---------------------------------------------------------------- bounds
\* Largest value of `attempts` a policy is constructed with.
MaxAttempts == 3

\* Hard stop of the model on the number of underlying calls; the executor's
\* own checks keep `calls` below it.
CallCap == MaxAttempts + 2

\* Longest list or tuple of URLs a caller passes.
MaxUrls == 2

\* Number of times __aexit__ is run on one executor.
MaxExits == 2

\* ------------------------------------------------------------- constants
MIN_SERVER_ERROR_STATUS == 500

DEFAULT_ATTEMPTS == 3
DEFAULT_START_TIMEOUT == 1
DEFAULT_MAX_TIMEOUT == 300
DEFAULT_FACTOR == 2

\* --------------------------------------------------------------- domains
Statuses == {200, 404, MIN_SERVER_ERROR_STATUS}

\* Default of RetryOptionsBase.methods.
DefaultMethods ==
    {"HEAD", "GET", "PUT", "DELETE", "OPTIONS", "TRACE", "POST", "CONNECT", "PATCH"}

\* Methods a caller passes to the facade (a verb constant, or a free string
\* given to request()).
RequestMethods == {"GET", "post"}

\* str.upper() on the method strings in use.
Upper(m) ==
    CASE m = "get" -> "GET"
      [] m = "post" -> "POST"
      [] OTHER -> m

\* Exception classes: Exception > ClientError > ClientResponseError, and
\* Exception > TimeoutError.
ExceptionClasses == {"Exception", "ClientError", "ClientResponseError", "TimeoutError"}

\* Classes of the errors the underlying call or the callback may raise.
RaisedClasses == {"ClientResponseError", "TimeoutError"}

\* Variant: asyncio.CancelledError derives from Exception.
Mro_cancelled_is_exception(c) ==
    CASE c = "ClientResponseError" -> {"ClientResponseError", "ClientError", "Exception"}
      [] c = "ClientError" -> {"ClientError", "Exception"}
      [] c = "TimeoutError" -> {"TimeoutError", "Exception"}
      [] c = "CancelledError" -> {"CancelledError", "Exception", "BaseException"}
      [] OTHER -> {"Exception"}

\* The class itself and its base classes. asyncio.CancelledError derives
\* from BaseException, not from Exception.
Mro(c) ==
    CASE c = "ClientResponseError" -> {"ClientResponseError", "ClientError", "Exception"}
      [] c = "ClientError" -> {"ClientError", "Exception"}
      [] c = "TimeoutError" -> {"TimeoutError", "Exception"}
      [] c = "CancelledError" -> {"CancelledError", "BaseException"}
      [] OTHER -> {"Exception"}

isinstance(e, cls) == cls \in Mro(e.type)

\* An optional constructor argument: given = FALSE stands for None.
NoArg == [given |-> FALSE, value |-> {}]
Arg(v) == [given |-> TRUE, value |-> v]

StatusesArgs == {NoArg, Arg({404}), Arg({200, 404})}
ExceptionsArgs ==
    {NoArg, Arg({}), Arg({"Exception"}), Arg({"ClientError"}), Arg({"TimeoutError"})}
MethodsArgs == {NoArg, Arg({"POST"})}

\* Dictionaries are functions from keys to values; NoDict stands for None.
EmptyDict == [k \in {} |-> 0]
NoDict == [given |-> FALSE, value |-> EmptyDict]
Dict(d) == [given |-> TRUE, value |-> d]

\* URLs are numbered; 0 is no URL.
NoResponse == [id |-> 0, status |-> 0, method |-> "None"]
NoError == [id |-> 0, type |-> "None", origin |-> "None", status |-> 0]
NoParams == [method |-> "None", url |-> 0, headers |-> NoDict, trace_request_ctx |-> NoDict]
NoRequest == [method |-> "None", url |-> 0, headers |-> NoDict, trace_request_ctx |-> EmptyDict]

\* ----------------------------------------------------------------- state
VARIABLES
    retry_options,      \* _RequestContext._retry_options (the policy object)
    exceptions_arg,     \* the `exceptions` argument the policy was built with
    raise_for_status,   \* _RequestContext._raise_for_status
    params_list,        \* _RequestContext._params_list
    pc,                 \* position of _do_request
    current_attempt,    \* local of _do_request
    in_flight,          \* params of the call being awaited
    retry_wait,         \* local of _do_request: argument of asyncio.sleep
    response,           \* _RequestContext._response
    raised,             \* the error _do_request propagated to the caller
    calls,              \* number of _request_func invocations
    sleeps,             \* number of asyncio.sleep invocations
    history,            \* per attempt: what was dispatched and what it produced
    open_responses,     \* ids of the responses received and not yet closed
    client_retry_options,       \* RetryClient._retry_options
    client_raise_for_status,    \* RetryClient._raise_for_status
    call,               \* the arguments of the facade call that built the executor
    usage,              \* how the caller consumes the executor: "await" or "scope"
    exits,              \* number of __aexit__ runs
    exit_exc,           \* the last __aexit__ was given an exception
    exit_closes,        \* number of response.close() calls made by __aexit__
    closed_by,          \* who closed the held response: "none", "caller", "exit"
    life,               \* stage of a RetryClient: "new", "open", "init_failed", "deleted", ...
    session,            \* where RetryClient._client came from: "none", "own", "given"
    closed,             \* RetryClient._closed: "unset", "None", "False", "True"
    session_closed,     \* ClientSession.closed of RetryClient._client
    closes,             \* the close() calls made on the client, in order
    warnings,           \* number of "was not closed" warnings logged
    gets,               \* number of get_timeout calls made on the policy
    got,                \* the last get_timeout call: its argument and its result
    tasks               \* the executors running concurrently on one client

executor_vars == <<retry_options, exceptions_arg, raise_for_status, params_list, pc,
                   current_attempt, in_flight, retry_wait, response, raised, calls,
                   sleeps, history, open_responses>>

client_vars == <<client_retry_options, client_raise_for_status, call, usage>>

scope_vars == <<exits, exit_exc, exit_closes, closed_by>>

lifecycle_vars == <<life, session, closed, session_closed, closes, warnings>>

policy_vars == <<gets, got>>

other_vars == <<lifecycle_vars, policy_vars, tasks>>

vars == <<executor_vars, client_vars, scope_vars, other_vars>>

Terminal == {"success", "failed"}

\* ---------------------------------------------------------------- policy
RetryOptionsBase(attempts, statuses, exceptions, methods, retry_all, callback) ==
    [attempts |-> attempts,
     statuses |-> IF statuses.given THEN statuses.value ELSE {},
     exceptions |-> IF exceptions.given THEN exceptions.value ELSE {},
     methods |-> IF methods.given THEN methods.value ELSE DefaultMethods,
     retry_all_server_errors |-> retry_all,
     evaluate_response_callback |-> callback]

ExponentialRetry(attempts, statuses, exceptions, methods, retry_all, callback) ==
    [start_timeout |-> DEFAULT_START_TIMEOUT,
     max_timeout |-> DEFAULT_MAX_TIMEOUT,
     factor |-> DEFAULT_FACTOR] @@
    RetryOptionsBase(attempts, statuses, exceptions, methods, retry_all, callback)

\* Stands for "no policy": the executor is not built yet, or no policy was passed.
NoPolicy == ExponentialRetry(0, NoArg, NoArg, NoArg, FALSE, FALSE)

Min(a, b) == IF a <= b THEN a ELSE b

\* Variant: the timeout grows linearly with the attempt.
get_timeout_linear(opts, attempt) ==
    Min(opts.start_timeout * (opts.factor * attempt), opts.max_timeout)

\* ExponentialRetry.get_timeout. Durations are counted in tenths of a second.
get_timeout(opts, attempt) ==
    Min(opts.start_timeout * (opts.factor ^ attempt), opts.max_timeout)

\* ExponentialRetry(attempts, start_timeout, max_timeout, factor)
ExponentialRetryWith(attempts, start_timeout, max_timeout, factor) ==
    [ExponentialRetry(attempts, NoArg, NoArg, NoArg, TRUE, FALSE)
        EXCEPT !.start_timeout = start_timeout,
               !.max_timeout = max_timeout,
               !.factor = factor]

\* ListRetry.__init__: attempts is the length of the list.
ListRetry(timeouts, statuses, exceptions, methods, retry_all, callback) ==
    [timeouts |-> timeouts] @@
    RetryOptionsBase(Len(timeouts), statuses, exceptions, methods, retry_all, callback)

\* FibonacciRetry.__init__: both steps start at 1.
FibonacciRetry(attempts, multiplier, max_timeout, exceptions) ==
    [multiplier |-> multiplier,
     max_timeout |-> max_timeout,
     prev_step |-> 1,
     current_step |-> 1] @@
    RetryOptionsBase(attempts, NoArg, exceptions, NoArg, TRUE, FALSE)

\* RandomRetry(attempts, min_timeout, max_timeout)
RandomRetry(attempts, min_timeout, max_timeout) ==
    [min_timeout |-> min_timeout,
     max_timeout |-> max_timeout] @@
    RetryOptionsBase(attempts, NoArg, NoArg, NoArg, TRUE, FALSE)

\* JitterRetry(attempts, start_timeout, max_timeout, factor, random_interval_size);
\* random_interval_size is counted in whole seconds.
JitterRetry(attempts, start_timeout, max_timeout, factor, random_interval_size) ==
    [random_interval_size |-> random_interval_size] @@
    ExponentialRetryWith(attempts, start_timeout, max_timeout, factor)

\* The class of a policy object, which selects its get_timeout.
class_of(opts) ==
    IF "random_interval_size" \in DOMAIN opts THEN "JitterRetry"
    ELSE IF "min_timeout" \in DOMAIN opts THEN "RandomRetry"
    ELSE IF "timeouts" \in DOMAIN opts THEN "ListRetry"
    ELSE IF "prev_step" \in DOMAIN opts THEN "FibonacciRetry"
    ELSE "ExponentialRetry"

\* Variant: the list is indexed from its end backwards.
list_get_timeout_reversed(opts, attempt) ==
    IF attempt + 1 \in DOMAIN opts.timeouts
    THEN [ok |-> TRUE, timeout |-> opts.timeouts[Len(opts.timeouts) - attempt], policy |-> opts]
    ELSE [ok |-> FALSE, timeout |-> 0, policy |-> opts]

\* ListRetry.get_timeout: self.timeouts[attempt], 0-based; ok = FALSE is the
\* IndexError of an index beyond the end.
list_get_timeout(opts, attempt) ==
    IF attempt + 1 \in DOMAIN opts.timeouts
    THEN [ok |-> TRUE, timeout |-> opts.timeouts[attempt + 1], policy |-> opts]
    ELSE [ok |-> FALSE, timeout |-> 0, policy |-> opts]

\* Variant: the step is computed from the attempt index; the pair is kept.
fibonacci_get_timeout_stateless(opts, attempt) ==
    [ok |-> TRUE,
     timeout |-> Min(opts.multiplier * (attempt + 2), opts.max_timeout),
     policy |-> opts]

\* FibonacciRetry.get_timeout: advances (prev_step, current_step); the
\* attempt argument is not used.
fibonacci_get_timeout(opts, attempt) ==
    LET new_current_step == opts.prev_step + opts.current_step
    IN [ok |-> TRUE,
        timeout |-> Min(opts.multiplier * new_current_step, opts.max_timeout),
        policy |-> [opts EXCEPT !.prev_step = opts.current_step,
                                !.current_step = new_current_step]]

\* Variant: the random source may return 1.0.
random_get_timeout_inclusive(opts, draw) ==
    opts.min_timeout + ((draw + 1) * (opts.max_timeout - opts.min_timeout)) \div 10

\* RandomRetry.get_timeout: min_timeout + random() * (max_timeout - min_timeout),
\* with random() = draw / 10 for a draw of 0..9.
random_get_timeout(opts, draw) ==
    opts.min_timeout + (draw * (opts.max_timeout - opts.min_timeout)) \div 10

\* JitterRetry.get_timeout: the exponential timeout plus
\* random.uniform(0, random_interval_size) ** factor, for a draw of whole
\* seconds (10 tenths each).
jitter_get_timeout(opts, attempt, draw) ==
    get_timeout(opts, attempt) + 10 * (draw ^ opts.factor)

\* self._retry_options.get_timeout(attempt=...): the result, and the policy
\* object as the call leaves it.
policy_get_timeout(opts, attempt) ==
    CASE class_of(opts) = "ListRetry" -> list_get_timeout(opts, attempt)
      [] class_of(opts) = "FibonacciRetry" -> fibonacci_get_timeout(opts, attempt)
      [] OTHER -> [ok |-> TRUE, timeout |-> get_timeout(opts, attempt), policy |-> opts]

\* -------------------------------------------------------------- executor
\* ClientResponse.raise_for_status(): raises for a status of 400 and above.
raises_for_status(resp) == resp.status >= 400

\* The error raise_for_status() raises for resp.
StatusError(resp) ==
    [id |-> resp.id, type |-> "ClientResponseError", origin |-> "raise_for_status",
     status |-> resp.status]

\* Variant: the callback is asked on the last attempt as well.
callback_reached_on_last_attempt(attempt, resp) ==
    /\ Upper(resp.method) \in retry_options.methods
    /\ ~(resp.status >= MIN_SERVER_ERROR_STATUS /\ retry_options.retry_all_server_errors)
    /\ resp.status \notin retry_options.statuses
    /\ retry_options.evaluate_response_callback

\* _is_skip_retry up to the callback: TRUE when the awaited callback decides.
callback_reached(attempt, resp) ==
    /\ attempt # retry_options.attempts
    /\ Upper(resp.method) \in retry_options.methods
    /\ ~(resp.status >= MIN_SERVER_ERROR_STATUS /\ retry_options.retry_all_server_errors)
    /\ resp.status \notin retry_options.statuses
    /\ retry_options.evaluate_response_callback

\* Variant: the attempt budget is not consulted.
is_skip_retry_no_budget(attempt, resp, cb) ==
    IF Upper(resp.method) \notin retry_options.methods THEN TRUE
    ELSE IF resp.status >= MIN_SERVER_ERROR_STATUS /\ retry_options.retry_all_server_errors
         THEN FALSE
    ELSE IF resp.status \in retry_options.statuses THEN FALSE
    ELSE IF ~retry_options.evaluate_response_callback THEN TRUE
    ELSE cb

\* Variant: the budget is taken to be spent one attempt early.
is_skip_retry_off_by_one(attempt, resp, cb) ==
    IF attempt >= retry_options.attempts - 1 THEN TRUE
    ELSE IF Upper(resp.method) \notin retry_options.methods THEN TRUE
    ELSE IF resp.status >= MIN_SERVER_ERROR_STATUS /\ retry_options.retry_all_server_errors
         THEN FALSE
    ELSE IF resp.status \in retry_options.statuses THEN FALSE
    ELSE IF ~retry_options.evaluate_response_callback THEN TRUE
    ELSE cb

\* Variant: every response is retried while the budget lasts.
is_skip_retry_budget_only(attempt, resp, cb) ==
    attempt = retry_options.attempts

\* Variant: a 5xx is retried whatever retry_all_server_errors says.
is_skip_retry_all_5xx(attempt, resp, cb) ==
    IF attempt = retry_options.attempts THEN TRUE
    ELSE IF Upper(resp.method) \notin retry_options.methods THEN TRUE
    ELSE IF resp.status >= MIN_SERVER_ERROR_STATUS THEN FALSE
    ELSE IF resp.status \in retry_options.statuses THEN FALSE
    ELSE IF ~retry_options.evaluate_response_callback THEN TRUE
    ELSE cb

\* _is_skip_retry; cb is the value the awaited callback returns.
is_skip_retry(attempt, resp, cb) ==
    IF attempt = retry_options.attempts THEN TRUE
    ELSE IF Upper(resp.method) \notin retry_options.methods THEN TRUE
    ELSE IF resp.status >= MIN_SERVER_ERROR_STATUS /\ retry_options.retry_all_server_errors
         THEN FALSE
    ELSE IF resp.status \in retry_options.statuses THEN FALSE
    ELSE IF ~retry_options.evaluate_response_callback THEN TRUE
    ELSE cb

\* Variant: an error is retried only when the method of the attempt is allowed.
is_exc_valid_method_checked(e) ==
    /\ Upper(in_flight.method) \in retry_options.methods
    /\ \E exc \in retry_options.exceptions : isinstance(e, exc)

\* any(isinstance(e, exc) for exc in self._retry_options.exceptions)
is_exc_valid(e) == \E exc \in retry_options.exceptions : isinstance(e, exc)

\* Variant: `>` in place of `>=`.
attempts_exhausted_gt(attempt) == attempt > retry_options.attempts

\* `current_attempt >= self._retry_options.attempts` of the except clause.
attempts_exhausted(attempt) == attempt >= retry_options.attempts

\* Variant: the first error of the logical request is raised instead.
reraise_first(e) ==
    IF history # <<>> /\ history[1].error # NoError THEN history[1].error ELSE e

\* The bare `raise` of the except clause: the caught error itself.
reraise(e) == e

\* params = self._params_list[current_attempt - 1], the last entry on IndexError.
\* Variant: a list shorter than the attempt number is cycled through.
ParamsFor_cycle(attempt) ==
    params_list[((attempt - 1) % Len(params_list)) + 1]

\* try: params = self._params_list[current_attempt - 1]
\* except IndexError: params = self._params_list[-1]
ParamsFor(attempt) ==
    IF attempt <= Len(params_list) THEN params_list[attempt]
    ELSE params_list[Len(params_list)]

\* {"current_attempt": current_attempt, **(params.trace_request_ctx or {})}
TraceCtx(attempt, ctx) ==
    (IF ctx.given THEN ctx.value ELSE EmptyDict) @@ [k \in {"current_attempt"} |-> attempt]

\* The arguments _request_func is called with on the given attempt.
Request(attempt) ==
    LET params == ParamsFor(attempt)
    IN [method |-> params.method,
        url |-> params.url,
        headers |-> params.headers,
        trace_request_ctx |-> TraceCtx(attempt, params.trace_request_ctx)]

Entry(resp, cb, e) ==
    [attempt |-> current_attempt, method |-> in_flight.method, status |-> resp.status,
     cb |-> cb, error |-> e, url |-> in_flight.url, headers |-> in_flight.headers,
     trace_request_ctx |-> in_flight.trace_request_ctx]

\* Head of the loop: count the attempt, pick its params, call _request_func.
Dispatch(attempt) ==
    /\ calls < CallCap
    /\ current_attempt' = attempt + 1
    /\ in_flight' = Request(attempt + 1)
    /\ calls' = calls + 1
    /\ pc' = "request"
    /\ UNCHANGED <<retry_options, exceptions_arg, raise_for_status, params_list,
                   retry_wait, response, raised, sleeps, history, open_responses,
                   client_vars, scope_vars, other_vars>>

\* Variant: the loop sleeps twice between two attempts.
Sleep_twice(wait) ==
    /\ pc' = "sleep"
    /\ retry_wait' = wait
    /\ sleeps' = sleeps + 2
    /\ UNCHANGED <<response, raised>>

\* End of the loop body: asyncio.sleep(retry_wait) is entered.
Sleep(wait) ==
    /\ pc' = "sleep"
    /\ retry_wait' = wait
    /\ sleeps' = sleeps + 1
    /\ UNCHANGED <<response, raised>>

\* The index the loop passes to get_timeout: `attempt=current_attempt`.
retry_index(attempt) == attempt

\* retry_wait = self._retry_options.get_timeout(attempt=current_attempt, ...)
\* followed by the sleep. An IndexError of get_timeout leaves _do_request:
\* raised in the try block it is re-raised by the handler or raised again by
\* the handler's own get_timeout call.
Wait(attempt) ==
    LET r == policy_get_timeout(retry_options, retry_index(attempt))
    IN IF r.ok THEN Sleep(r.timeout)
       ELSE /\ pc' = "failed"
            /\ raised' = [id |-> calls, type |-> "IndexError", origin |-> "get_timeout",
                          status |-> 0]
            /\ UNCHANGED <<response, retry_wait, sleeps>>

\* `except Exception as e` of _do_request.
ExceptHandler(e) ==
    IF attempts_exhausted(current_attempt) THEN
        /\ pc' = "failed"
        /\ raised' = reraise(e)
        /\ UNCHANGED <<response, retry_wait, sleeps>>
    ELSE IF ~is_exc_valid(e) THEN
        /\ pc' = "failed"
        /\ raised' = reraise(e)
        /\ UNCHANGED <<response, retry_wait, sleeps>>
    ELSE Wait(current_attempt)

\* Variant: the response is closed before it is handed to an awaiting caller.
returned_open_closed_on_await(resp, use) == use # "await"

\* __await__ and __aenter__ hand over the response _do_request returned
\* without closing it.
returned_open(resp, use) == TRUE

\* What an outcome of the awaited call leaves alone; the policy object is
\* the one get_timeout left behind when the loop went on to sleep. For a call
\* made without a policy of its own that object is the client's
\* (_make_requests), so the client sees it change.
Frame ==
    /\ retry_options' =
           IF pc' = "sleep"
           THEN policy_get_timeout(retry_options, retry_index(current_attempt)).policy
           ELSE retry_options
    /\ client_retry_options' =
           IF call.retry_options.given THEN client_retry_options ELSE retry_options'
    /\ UNCHANGED <<exceptions_arg, raise_for_status, params_list, current_attempt,
                   in_flight, calls, client_raise_for_status, call, usage, scope_vars,
                   other_vars>>

\* __aenter__ / __await__: _do_request starts with current_attempt = 0.
Start ==
    /\ pc = "idle"
    /\ Dispatch(0)

\* asyncio.sleep returns; the loop issues the next attempt.
SleepDone ==
    /\ pc = "sleep"
    /\ Dispatch(current_attempt)

\* _request_func raises an error of class t.
RequestRaises(t) ==
    /\ pc = "request"
    /\ LET e == [id |-> calls, type |-> t, origin |-> "request", status |-> 0]
       IN /\ history' = Append(history, Entry(NoResponse, "not_called", e))
          /\ ExceptHandler(e)
    /\ UNCHANGED open_responses
    /\ Frame

\* _request_func returns a response; the callback, if awaited, returns cb
\* (cb is an input only when _is_skip_retry gets as far as the callback).
RequestReturns(status, cb) ==
    /\ pc = "request"
    /\ LET resp == [id |-> calls, status |-> status, method |-> in_flight.method]
           reached == callback_reached(current_attempt, resp)
           cbs == IF cb THEN "true" ELSE "false"
       IN /\ reached \/ cb
          /\ open_responses' =
                 IF ~is_skip_retry(current_attempt, resp, cb)
                 THEN open_responses \cup {resp.id}   \* nothing closes it before the sleep
                 ELSE IF raise_for_status /\ raises_for_status(resp)
                 THEN open_responses                  \* raise_for_status() releases it
                 ELSE IF returned_open(resp, usage)
                 THEN open_responses \cup {resp.id}
                 ELSE open_responses
          /\ IF is_skip_retry(current_attempt, resp, cb) THEN
                 IF raise_for_status /\ raises_for_status(resp) THEN
                     /\ history' = Append(history,
                            Entry(resp, IF reached THEN cbs ELSE "not_called", StatusError(resp)))
                     /\ ExceptHandler(StatusError(resp))
                 ELSE
                     /\ history' = Append(history,
                            Entry(resp, IF reached THEN cbs ELSE "not_called", NoError))
                     /\ response' = resp
                     /\ pc' = "success"
                     /\ UNCHANGED <<raised, retry_wait, sleeps>>
             ELSE
                 /\ history' = Append(history,
                        Entry(resp, IF reached THEN cbs ELSE "not_called", NoError))
                 /\ Wait(current_attempt)
    /\ Frame

\* _request_func returns a response and the awaited callback raises.
CallbackRaises(status, t) ==
    /\ pc = "request"
    /\ LET resp == [id |-> calls, status |-> status, method |-> in_flight.method]
           e == [id |-> calls, type |-> t, origin |-> "callback", status |-> 0]
       IN /\ callback_reached(current_attempt, resp)
          /\ open_responses' = open_responses \cup {resp.id}
          /\ history' = Append(history, Entry(resp, "raised", e))
          /\ ExceptHandler(e)
    /\ Frame

\* The task running _do_request is cancelled: CancelledError is raised at
\* the await the coroutine is suspended in. The await of _request_func is
\* inside the try block, so `except Exception` sees the error if it is an
\* Exception; the await of asyncio.sleep is outside of it.
Cancel ==
    /\ pc \in {"request", "sleep"}
    /\ LET e == [id |-> calls, type |-> "CancelledError", origin |-> pc, status |-> 0]
       IN IF pc = "request"
          THEN /\ history' = Append(history, Entry(NoResponse, "not_called", e))
               /\ IF isinstance(e, "Exception")
                  THEN ExceptHandler(e)
                  ELSE /\ pc' = "cancelled"
                       /\ raised' = e
                       /\ UNCHANGED <<response, retry_wait, sleeps>>
          ELSE /\ pc' = "cancelled"
               /\ raised' = e
               /\ UNCHANGED <<history, response, retry_wait, sleeps>>
    /\ UNCHANGED open_responses
    /\ Frame

\* A _RequestContext built by the facade for one call, not yet awaited.
\* No get_timeout call was made outside the executor's loop.
NoGet == [attempt |-> 0, ok |-> TRUE, timeout |-> 0]

\* The client is constructed around a session it was given and stays open;
\* its policy is used by one executor only.
OtherIdle ==
    /\ life = "open"
    /\ session = "given"
    /\ closed = "None"
    /\ session_closed = FALSE
    /\ closes = <<>>
    /\ warnings = 0
    /\ gets = 0
    /\ got = NoGet
    /\ tasks = <<>>

Init ==
    /\ OtherIdle
    /\ \E n \in 1..MaxAttempts, st \in StatusesArgs, ex \in ExceptionsArgs,
          me \in MethodsArgs, ra \in BOOLEAN, cb \in BOOLEAN :
          /\ retry_options = ExponentialRetry(n, st, ex, me, ra, cb)
          /\ exceptions_arg = ex
    /\ raise_for_status \in BOOLEAN
    /\ \E m \in RequestMethods :
          /\ params_list = <<[method |-> m, url |-> 1, headers |-> Dict(EmptyDict),
                              trace_request_ctx |-> NoDict]>>
          /\ call = [entry |-> "request", method |-> m, url |-> [shape |-> "str", items |-> <<1>>],
                     headers |-> NoDict, trace_request_ctx |-> NoDict,
                     params_list |-> <<>>,
                     retry_options |-> [given |-> FALSE, value |-> NoPolicy],
                     raise_for_status |-> [given |-> FALSE, value |-> FALSE]]
    /\ client_retry_options = retry_options
    /\ client_raise_for_status = raise_for_status
    /\ usage = "await"
    /\ open_responses = {}
    /\ exits = 0
    /\ exit_exc = FALSE
    /\ exit_closes = 0
    /\ closed_by = "none"
    /\ pc = "idle"
    /\ current_attempt = 0
    /\ in_flight = NoRequest
    /\ retry_wait = 0
    /\ response = NoResponse
    /\ raised = NoError
    /\ calls = 0
    /\ sleeps = 0
    /\ history = <<>>

Next ==
    \/ Start
    \/ SleepDone
    \/ \E t \in RaisedClasses : RequestRaises(t)
    \/ \E status \in Statuses, cb \in BOOLEAN : RequestReturns(status, cb)
    \/ \E status \in Statuses, t \in RaisedClasses : CallbackRaises(status, t)

Spec == Init /\ [][Next]_vars

\* Every underlying call and every inter-attempt wait eventually completes.
RequestCompletes ==
    \/ \E t \in RaisedClasses : RequestRaises(t)
    \/ \E status \in Statuses, cb \in BOOLEAN : RequestReturns(status, cb)
    \/ \E status \in Statuses, t \in RaisedClasses : CallbackRaises(status, t)

FairSpec == Spec /\ WF_vars(RequestCompletes) /\ WF_vars(SleepDone)

\* An executor under a ListRetry policy of 1..MaxAttempts durations.
ListInit ==
    /\ OtherIdle
    /\ \E n \in 1..MaxAttempts, st \in StatusesArgs, ex \in {NoArg, Arg({"Exception"})},
          ra \in BOOLEAN, cb \in BOOLEAN :
          /\ retry_options = ListRetry([i \in 1..n |-> 10 * i], st, ex, NoArg, ra, cb)
          /\ exceptions_arg = ex
    /\ raise_for_status \in BOOLEAN
    /\ params_list = <<[method |-> "GET", url |-> 1, headers |-> Dict(EmptyDict),
                        trace_request_ctx |-> NoDict]>>
    /\ call = [entry |-> "request", method |-> "GET",
               url |-> [shape |-> "str", items |-> <<1>>],
               headers |-> NoDict, trace_request_ctx |-> NoDict, params_list |-> <<>>,
               retry_options |-> [given |-> FALSE, value |-> NoPolicy],
               raise_for_status |-> [given |-> FALSE, value |-> FALSE]]
    /\ client_retry_options = retry_options
    /\ client_raise_for_status = raise_for_status
    /\ usage = "await"
    /\ open_responses = {}
    /\ exits = 0
    /\ exit_exc = FALSE
    /\ exit_closes = 0
    /\ closed_by = "none"
    /\ pc = "idle"
    /\ current_attempt = 0
    /\ in_flight = NoRequest
    /\ retry_wait = 0
    /\ response = NoResponse
    /\ raised = NoError
    /\ calls = 0
    /\ sleeps = 0
    /\ history = <<>>

ListSpec == ListInit /\ [][Next]_vars

\* The executor, with a caller that may cancel it at either await.
CancelNext == Next \/ Cancel

CancelSpec == Init /\ [][CancelNext]_vars

TypeOK ==
    /\ pc \in {"client", "value_error", "assertion_error", "idle", "request", "sleep",
              "cancelled"}
             \cup Terminal
    /\ current_attempt \in 0..CallCap
    /\ calls \in 0..CallCap

\* ---------------------------------------------------------------- facade
\* The url argument of a verb call: a str, a yarl URL, a list, a tuple, or
\* something else (a set).
Urls(n) == [i \in 1..n |-> i]

UrlInputs ==
    {[shape |-> sh, items |-> Urls(1)] : sh \in {"str", "yarl"}}
        \cup {[shape |-> sh, items |-> Urls(n)] : sh \in {"list", "tuple"}, n \in 0..MaxUrls}
        \cup {[shape |-> "set", items |-> Urls(2)]}

\* Variant: any collection of URLs is taken as a list.
url_to_urls_any_collection(url) ==
    IF Len(url.items) = 0 THEN [ok |-> FALSE, urls |-> <<>>]
    ELSE [ok |-> TRUE, urls |-> url.items]

\* _url_to_urls: the tuple of URLs, or ValueError (ok = FALSE).
url_to_urls(url) ==
    IF url.shape \in {"str", "yarl"} THEN [ok |-> TRUE, urls |-> url.items]
    ELSE IF url.shape \notin {"list", "tuple"} THEN [ok |-> FALSE, urls |-> <<>>]
    ELSE IF Len(url.items) = 0 THEN [ok |-> FALSE, urls |-> <<>>]
    ELSE [ok |-> TRUE, urls |-> url.items]

\* kwargs.pop(key, default) while building the params of the i-th URL: kwargs
\* is one dictionary for the whole list, so the key is there for the first
\* URL only.
kwargs_pop(arg, default, i) == IF arg.given /\ i = 1 THEN arg ELSE default

\* The list comprehension of _make_request.
make_params_list(method, urls, headers, trace_request_ctx) ==
    [i \in 1..Len(urls) |->
        [method |-> method,
         url |-> urls[i],
         headers |-> kwargs_pop(headers, Dict(EmptyDict), i),
         trace_request_ctx |-> kwargs_pop(trace_request_ctx, NoDict, i)]]

\* Variant: `raise_for_status or self._raise_for_status`.
choose_raise_for_status_truthy(arg) ==
    IF arg.given /\ arg.value THEN TRUE ELSE client_raise_for_status

\* _make_requests: `if raise_for_status is None: raise_for_status = self._raise_for_status`
choose_raise_for_status(arg) ==
    IF ~arg.given THEN client_raise_for_status ELSE arg.value

\* Variant: a call without a policy gets a fresh default policy.
choose_retry_options_fresh(arg) ==
    IF ~arg.given THEN ExponentialRetry(DEFAULT_ATTEMPTS, NoArg, NoArg, NoArg, TRUE, FALSE)
    ELSE arg.value

\* Variant: a call without a policy gets the client's policy with the
\* Fibonacci steps set back to their start.
choose_retry_options_reset(arg) ==
    IF arg.given THEN arg.value
    ELSE IF class_of(client_retry_options) = "FibonacciRetry"
    THEN [client_retry_options EXCEPT !.prev_step = 1, !.current_step = 1]
    ELSE client_retry_options

\* _make_requests: `if retry_options is None: retry_options = self._retry_options`
choose_retry_options(arg) ==
    IF ~arg.given THEN client_retry_options ELSE arg.value

NoPolicyArg == [given |-> FALSE, value |-> NoPolicy]
PolicyArg(policy) == [given |-> TRUE, value |-> policy]
NoFlag == [given |-> FALSE, value |-> FALSE]
Flag(b) == [given |-> TRUE, value |-> b]

\* Policies handed to RetryClient(...) and to single calls.
ClientPolicyArgs ==
    {NoPolicyArg, PolicyArg(ExponentialRetry(1, NoArg, NoArg, NoArg, TRUE, FALSE))}
CallExceptionsArg == Arg({"Exception"})
CallPolicyArgs ==
    {NoPolicyArg,
     PolicyArg(ExponentialRetry(MaxAttempts, Arg({404}), CallExceptionsArg, NoArg, TRUE, TRUE))}
FlagArgs == {NoFlag, Flag(TRUE), Flag(FALSE)}

HeadersArgs == {NoDict, Dict([k \in {"correct_headers"} |-> 1])}
TraceArgs == {NoDict, Dict([k \in {"foo", "current_attempt"} |-> 99])}

\* The method a verb method passes on (hdrs.METH_GET for get).
VerbMethods == {"GET"}

\* params_list arguments of RetryClient.requests.
ParamsLists ==
    LET p1 == [method |-> "post", url |-> 1, headers |-> NoDict,
               trace_request_ctx |-> Dict([k \in {"foo"} |-> 7])]
        p2 == [method |-> "GET", url |-> 2,
               headers |-> Dict([k \in {"correct_headers"} |-> 1]),
               trace_request_ctx |-> NoDict]
    IN {<<>>, <<p1>>, <<p1, p2>>}

NoUrl == [shape |-> "str", items |-> <<>>]

NoCall ==
    [entry |-> "none", method |-> "None", url |-> NoUrl, headers |-> NoDict,
     trace_request_ctx |-> NoDict, params_list |-> <<>>,
     retry_options |-> NoPolicyArg, raise_for_status |-> NoFlag]

\* _RequestContext.__init__ as called by _make_requests.
BuildExecutor(params, ro, rfs) ==
    /\ params_list' = params
    /\ retry_options' = choose_retry_options(ro)
    /\ exceptions_arg' = IF ro.given THEN CallExceptionsArg ELSE NoArg
    /\ raise_for_status' = choose_raise_for_status(rfs)
    /\ pc' = "idle"

NoExecutor ==
    /\ pc' \in {"value_error", "assertion_error"}
    /\ UNCHANGED <<params_list, retry_options, exceptions_arg, raise_for_status>>

ClientFrame ==
    UNCHANGED <<client_retry_options, client_raise_for_status, usage, current_attempt, in_flight,
                retry_wait, response, raised, calls, sleeps, history, open_responses,
                scope_vars, other_vars>>

\* A verb method (get, post, ..., request) -> _make_request -> _make_requests.
MakeRequest(method, url, headers, trace_request_ctx, ro, rfs) ==
    /\ pc = "client"
    /\ call' = [entry |-> "request", method |-> method, url |-> url, headers |-> headers,
                trace_request_ctx |-> trace_request_ctx, params_list |-> <<>>,
                retry_options |-> ro, raise_for_status |-> rfs]
    /\ LET url_list == url_to_urls(url)
       IN IF ~url_list.ok
          THEN pc' = "value_error" /\ NoExecutor
          ELSE BuildExecutor(make_params_list(method, url_list.urls, headers, trace_request_ctx),
                             ro, rfs)
    /\ ClientFrame

\* RetryClient.requests -> _make_requests; the executor asserts a non-empty list.
MakeRequests(params, ro, rfs) ==
    /\ pc = "client"
    /\ call' = [NoCall EXCEPT !.entry = "requests", !.params_list = params,
                             !.retry_options = ro, !.raise_for_status = rfs]
    /\ IF Len(params) = 0
       THEN pc' = "assertion_error" /\ NoExecutor
       ELSE BuildExecutor(params, ro, rfs)
    /\ ClientFrame

\* Variant: __aexit__ closes whenever a response is held.
aexit_closes_unguarded(resp, open) == resp # NoResponse

\* __aexit__: `self._response is not None and not self._response.closed`
aexit_closes(resp, open) == resp # NoResponse /\ resp.id \in open

ScopeFrame ==
    UNCHANGED <<retry_options, exceptions_arg, raise_for_status, params_list, pc,
                current_attempt, in_flight, retry_wait, response, raised, calls, sleeps,
                history, client_vars, other_vars>>

\* The caller releases (or closes) the response it was given; releasing a
\* closed response changes nothing.
CallerRelease ==
    /\ pc = "success"
    /\ response.id \in open_responses
    /\ open_responses' = open_responses \ {response.id}
    /\ closed_by' = "caller"
    /\ UNCHANGED <<exits, exit_exc, exit_closes>>
    /\ ScopeFrame

\* __aexit__, after the body of `async with` ended normally (exc = FALSE) or
\* with an error (exc = TRUE). It is not run when __aenter__ raised.
ScopeExit(exc) ==
    /\ pc = "success"
    /\ usage = "scope"
    /\ exits < MaxExits
    /\ exits' = exits + 1
    /\ exit_exc' = exc
    /\ IF aexit_closes(response, open_responses)
       THEN /\ open_responses' = open_responses \ {response.id}
            /\ exit_closes' = exit_closes + 1
            /\ closed_by' = IF response.id \in open_responses THEN "exit" ELSE closed_by
       ELSE UNCHANGED <<open_responses, exit_closes, closed_by>>
    /\ ScopeFrame

\* RetryClient.__init__ with retry_options and raise_for_status; no call yet.
ClientInit ==
    /\ OtherIdle
    /\ \E ro \in ClientPolicyArgs :
          client_retry_options =
              IF ro.given THEN ro.value
              ELSE ExponentialRetry(DEFAULT_ATTEMPTS, NoArg, NoArg, NoArg, TRUE, FALSE)
    /\ client_raise_for_status \in BOOLEAN
    /\ call = NoCall
    /\ usage = "await"
    /\ retry_options = NoPolicy
    /\ exceptions_arg = NoArg
    /\ raise_for_status = FALSE
    /\ params_list = <<>>
    /\ pc = "client"
    /\ current_attempt = 0
    /\ in_flight = NoRequest
    /\ retry_wait = 0
    /\ response = NoResponse
    /\ raised = NoError
    /\ calls = 0
    /\ sleeps = 0
    /\ history = <<>>
    /\ open_responses = {}
    /\ exits = 0
    /\ exit_exc = FALSE
    /\ exit_closes = 0
    /\ closed_by = "none"

\* The call is over (it returned, raised, or was rejected); the client is
\* ready for its next call, its own attributes untouched.
NextCall ==
    /\ pc \in Terminal \cup {"value_error", "assertion_error"}
    /\ call' = NoCall
    /\ retry_options' = NoPolicy
    /\ exceptions_arg' = NoArg
    /\ raise_for_status' = FALSE
    /\ params_list' = <<>>
    /\ pc' = "client"
    /\ current_attempt' = 0
    /\ in_flight' = NoRequest
    /\ retry_wait' = 0
    /\ response' = NoResponse
    /\ raised' = NoError
    /\ calls' = 0
    /\ sleeps' = 0
    /\ history' = <<>>
    /\ open_responses' = {}
    /\ UNCHANGED <<client_retry_options, client_raise_for_status, usage, scope_vars,
                   other_vars>>

ClientNext ==
    \/ \E method \in VerbMethods, url \in UrlInputs, headers \in HeadersArgs,
          trace_request_ctx \in TraceArgs, ro \in CallPolicyArgs, rfs \in FlagArgs :
          MakeRequest(method, url, headers, trace_request_ctx, ro, rfs)
    \/ \E params \in ParamsLists, ro \in CallPolicyArgs, rfs \in FlagArgs :
          MakeRequests(params, ro, rfs)
    \/ Next
    \/ NextCall

ClientSpec == ClientInit /\ [][ClientNext]_vars

\* Between two calls the caller assigns to the attempts attribute of the
\* object the retry_options property returns, which is the client's own
\* policy object: `retry_client.retry_options.attempts = n`.
SetAttempts(n) ==
    /\ pc = "client"
    /\ n # client_retry_options.attempts
    /\ client_retry_options' = [client_retry_options EXCEPT !.attempts = n]
    /\ UNCHANGED <<executor_vars, client_raise_for_status, call, usage, scope_vars,
                   other_vars>>

\* A client used for one GET after another, its policy changed in between.
MutateNext ==
    \/ \E n \in 1..MaxAttempts : SetAttempts(n)
    \/ \E ro \in CallPolicyArgs :
          MakeRequest("GET", [shape |-> "str", items |-> Urls(1)], NoDict, NoDict, ro, NoFlag)
    \/ Next
    \/ NextCall

MutateSpec == ClientInit /\ [][MutateNext]_vars

\* An executor built for one call, consumed by `await` or by `async with`.
ScopeInit ==
    /\ OtherIdle
    /\ \E n \in 1..MaxAttempts, ex \in {NoArg, Arg({"Exception"})}, cb \in BOOLEAN :
          /\ retry_options = ExponentialRetry(n, NoArg, ex, NoArg, TRUE, cb)
          /\ exceptions_arg = ex
    /\ raise_for_status \in BOOLEAN
    /\ params_list = <<[method |-> "GET", url |-> 1, headers |-> Dict(EmptyDict),
                        trace_request_ctx |-> NoDict]>>
    /\ call = [NoCall EXCEPT !.entry = "request", !.method = "GET",
                             !.url = [shape |-> "str", items |-> <<1>>]]
    /\ client_retry_options = retry_options
    /\ client_raise_for_status = raise_for_status
    /\ usage \in {"await", "scope"}
    /\ pc = "idle"
    /\ current_attempt = 0
    /\ in_flight = NoRequest
    /\ retry_wait = 0
    /\ response = NoResponse
    /\ raised = NoError
    /\ calls = 0
    /\ sleeps = 0
    /\ history = <<>>
    /\ open_responses = {}
    /\ exits = 0
    /\ exit_exc = FALSE
    /\ exit_closes = 0
    /\ closed_by = "none"

ScopeNext ==
    \/ Next
    \/ CallerRelease
    \/ \E exc \in BOOLEAN : ScopeExit(exc)

ScopeSpec == ScopeInit /\ [][ScopeNext]_vars

\* ------------------------------------------------------------- lifecycle
\* Number of close() calls made on one client.
MaxCloses == 3

\* No call was made through the client and no executor exists.
NoRun ==
    /\ call = NoCall
    /\ usage = "await"
    /\ exceptions_arg = NoArg
    /\ raise_for_status = FALSE
    /\ params_list = <<>>
    /\ pc = "client"
    /\ current_attempt = 0
    /\ in_flight = NoRequest
    /\ retry_wait = 0
    /\ response = NoResponse
    /\ raised = NoError
    /\ calls = 0
    /\ sleeps = 0
    /\ history = <<>>
    /\ open_responses = {}
    /\ exits = 0
    /\ exit_exc = FALSE
    /\ exit_closes = 0
    /\ closed_by = "none"

LifecycleFrame ==
    UNCHANGED <<executor_vars, client_vars, scope_vars, policy_vars, tasks>>

\* RetryClient.__init__. With a session given, _closed is None; without one
\* the client builds a ClientSession, and _closed is False once that worked
\* (session_ok); when ClientSession(...) raises, no attribute is set.
Construct(session_given, session_ok) ==
    /\ life = "new"
    /\ IF session_given
       THEN life' = "open" /\ session' = "given" /\ closed' = "None"
       ELSE IF session_ok
       THEN life' = "open" /\ session' = "own" /\ closed' = "False"
       ELSE life' = "init_failed" /\ UNCHANGED <<session, closed>>
    /\ UNCHANGED <<session_closed, closes, warnings>>
    /\ LifecycleFrame

\* Variant: close() leaves a session the client was given to its owner.
close_closes_session_own_only(origin) == origin = "own"

\* `await self._client.close()`: the session is closed wherever it came from.
close_closes_session(origin) == TRUE

\* RetryClient.close completes, called directly (via = "close") or by the
\* client's own __aexit__ (via = "aexit").
Close(via) ==
    /\ life = "open"
    /\ Len(closes) < MaxCloses
    /\ session_closed' = (session_closed \/ close_closes_session(session))
    /\ closed' = "True"
    /\ closes' = Append(closes, via)
    /\ UNCHANGED <<life, session, warnings>>
    /\ LifecycleFrame

\* RetryClient.close is entered and self._client.close() does not complete
\* (it raises or is cancelled): _closed is not assigned; the session may or
\* may not have been closed by then.
CloseInterrupted ==
    /\ life = "open"
    /\ Len(closes) < MaxCloses
    /\ \E done \in BOOLEAN : session_closed' = (session_closed \/ done)
    /\ closes' = Append(closes, "interrupted")
    /\ UNCHANGED <<life, session, closed, warnings>>
    /\ LifecycleFrame

\* Variant: plain attribute access, which fails on a missing attribute.
getattr_closed_no_default(c) == c

\* getattr(self, "_closed", None)
getattr_closed(c) == IF c = "unset" THEN "None" ELSE c

\* __del__: `if not self._closed`, reached when _closed is not None.
del_warns(c) == c = "False"

\* RetryClient.__del__
Del ==
    /\ life \in {"open", "init_failed"}
    /\ LET c == getattr_closed(closed)
       IN IF c = "unset"
          THEN life' = "del_raised" /\ UNCHANGED warnings
          ELSE IF c = "None"
          THEN life' = "deleted" /\ UNCHANGED warnings
          ELSE /\ life' = "deleted"
               /\ warnings' = IF del_warns(c) THEN warnings + 1 ELSE warnings
    /\ UNCHANGED <<session, closed, session_closed, closes>>
    /\ LifecycleFrame

LifecycleInit ==
    /\ NoRun
    /\ retry_options = NoPolicy
    /\ client_retry_options = ExponentialRetry(DEFAULT_ATTEMPTS, NoArg, NoArg, NoArg, TRUE, FALSE)
    /\ client_raise_for_status = FALSE
    /\ life = "new"
    /\ session = "none"
    /\ closed = "unset"
    /\ session_closed = FALSE
    /\ closes = <<>>
    /\ warnings = 0
    /\ gets = 0
    /\ got = NoGet
    /\ tasks = <<>>

LifecycleNext ==
    \/ \E session_given \in BOOLEAN, session_ok \in BOOLEAN :
          Construct(session_given, session_ok)
    \/ \E via \in {"close", "aexit"} : Close(via)
    \/ CloseInterrupted
    \/ Del

LifecycleSpec == LifecycleInit /\ [][LifecycleNext]_vars

\* ---------------------------------------------------------- policy calls
\* Largest attempt index get_timeout is called with.
MaxIndex == 9

\* Number of get_timeout calls made on one policy object.
MaxGets == 10

\* The list of test_list_retry, in tenths of a second.
TestTimeouts == <<12, 21, 34, 43, 45, 54, 56, 65, 67, 76>>

\* Policies as the tests build them: ExponentialRetry(attempts=10),
\* ListRetry(expected), FibonacciRetry(attempts=10, multiplier=2,
\* max_timeout=60); and one more of each class.
TestExponential == ExponentialRetryWith(10, DEFAULT_START_TIMEOUT, DEFAULT_MAX_TIMEOUT,
                                        DEFAULT_FACTOR)
TestList == ListRetry(TestTimeouts, NoArg, NoArg, NoArg, TRUE, FALSE)
TestFibonacci == FibonacciRetry(10, 20, 600, NoArg)

\* JitterRetry(attempts=10), as test_jitter_retry builds it: start_timeout
\* 0.1, max_timeout 30.0, factor 2.0, random_interval_size 2.0.
TestJitter == JitterRetry(10, DEFAULT_START_TIMEOUT, DEFAULT_MAX_TIMEOUT, DEFAULT_FACTOR, 2)

Policies ==
    {TestExponential, ExponentialRetryWith(3, 5, 100, 3),
     TestList, ListRetry(<<7, 3>>, NoArg, NoArg, NoArg, TRUE, FALSE),
     TestFibonacci, FibonacciRetry(3, 10, 30, NoArg),
     RandomRetry(3, 10, 30), RandomRetry(3, 0, 10), RandomRetry(3, 20, 20),
     TestJitter}

\* Values of random.random(), in tenths: 0.0 .. 0.9.
RandomDraws == 0..9

\* The policy classes whose get_timeout draws a random number.
DrawingClasses == {"RandomRetry", "JitterRetry"}

\* policy.get_timeout(attempt) on a RandomRetry or JitterRetry object, the
\* random source returning draw.
GetTimeoutDrawn(attempt, draw) ==
    /\ gets < MaxGets
    /\ class_of(retry_options) \in DrawingClasses
    /\ IF class_of(retry_options) = "RandomRetry"
       THEN /\ draw \in RandomDraws
            /\ got' = [attempt |-> attempt, ok |-> TRUE,
                       timeout |-> random_get_timeout(retry_options, draw)]
       ELSE /\ draw \in 0..retry_options.random_interval_size
            /\ got' = [attempt |-> attempt, ok |-> TRUE,
                       timeout |-> jitter_get_timeout(retry_options, attempt, draw)]
    /\ gets' = gets + 1
    /\ UNCHANGED <<retry_options, exceptions_arg, raise_for_status, params_list, pc,
                   current_attempt, in_flight, retry_wait, response, raised, calls, sleeps,
                   history, open_responses, client_vars, scope_vars, lifecycle_vars, tasks>>

\* policy.get_timeout(attempt), called directly on the policy object.
GetTimeout(attempt) ==
    /\ gets < MaxGets
    /\ class_of(retry_options) \notin DrawingClasses
    /\ LET r == policy_get_timeout(retry_options, attempt)
       IN /\ got' = [attempt |-> attempt, ok |-> r.ok, timeout |-> r.timeout]
          /\ retry_options' = r.policy
    /\ gets' = gets + 1
    /\ UNCHANGED <<exceptions_arg, raise_for_status, params_list, pc, current_attempt,
                   in_flight, retry_wait, response, raised, calls, sleeps, history,
                   open_responses, client_vars, scope_vars, lifecycle_vars, tasks>>

\* A policy object right after its construction; client_retry_options keeps
\* the object as constructed.
PolicyInit ==
    /\ NoRun
    /\ retry_options \in Policies
    /\ client_retry_options = retry_options
    /\ client_raise_for_status = FALSE
    /\ life = "open"
    /\ session = "given"
    /\ closed = "None"
    /\ session_closed = FALSE
    /\ closes = <<>>
    /\ warnings = 0
    /\ gets = 0
    /\ got = NoGet
    /\ tasks = <<>>

PolicyNext ==
    \/ \E attempt \in 0..MaxIndex : GetTimeout(attempt)
    \/ \E attempt \in 0..MaxIndex, draw \in RandomDraws : GetTimeoutDrawn(attempt, draw)

PolicySpec == PolicyInit /\ [][PolicyNext]_vars

\* ----------------------------------------------------------- concurrency
\* Number of logical requests running at once through one client.
MaxTasks == 2

\* Statuses the target answers concurrent requests with.
TaskStatuses == {200, 500}

\* An executor built by the client and not yet awaited.
IdleTask == [pc |-> "idle", current_attempt |-> 0, calls |-> 0, waits |-> <<>>,
             statuses |-> <<>>]

\* Policies a client is constructed with. Every executor of a call without
\* a policy of its own holds this one object (_make_requests).
SharedPolicies ==
    {ExponentialRetry(MaxAttempts, NoArg, NoArg, NoArg, TRUE, FALSE),
     FibonacciRetry(MaxAttempts, 10, 600, NoArg)}

\* Variant: the wait stops the whole event loop, as time.sleep would.
sleep_suspends_loop(i, j) == TRUE

\* `await asyncio.sleep(retry_wait)`: does the wait of executor i suspend
\* executor j? Only the awaiting task is suspended.
sleep_suspends(i, j) == i = j

\* Executor j is not held up by the wait of another executor.
Runnable(j) ==
    \A i \in DOMAIN tasks : (i # j /\ tasks[i].pc = "sleep") => ~sleep_suspends(i, j)

TaskFrame ==
    UNCHANGED <<exceptions_arg, raise_for_status, params_list, pc, current_attempt,
                in_flight, retry_wait, response, raised, calls, sleeps, history,
                open_responses, client_raise_for_status, call, usage, scope_vars,
                lifecycle_vars, policy_vars>>

\* Head of the loop of executor j: the next attempt is issued.
TaskDispatch(j) ==
    /\ tasks[j].calls < CallCap
    /\ tasks' = [tasks EXCEPT ![j].pc = "request",
                              ![j].current_attempt = @ + 1,
                              ![j].calls = @ + 1]
    /\ UNCHANGED <<retry_options, client_retry_options>>
    /\ TaskFrame

\* Executor j is awaited.
TaskStart(j) ==
    /\ tasks[j].pc = "idle"
    /\ Runnable(j)
    /\ TaskDispatch(j)

\* The call of executor j returns a response: it is the result, or the
\* executor asks the shared policy object for a wait and sleeps.
TaskReturns(j, status) ==
    /\ tasks[j].pc = "request"
    /\ Runnable(j)
    /\ LET resp == [id |-> tasks[j].calls, status |-> status, method |-> "GET"]
           r == policy_get_timeout(retry_options, retry_index(tasks[j].current_attempt))
       IN IF is_skip_retry(tasks[j].current_attempt, resp, FALSE)
          THEN /\ tasks' = [tasks EXCEPT ![j].pc = "success",
                                         ![j].statuses = Append(@, status)]
               /\ UNCHANGED <<retry_options, client_retry_options>>
          ELSE /\ tasks' = [tasks EXCEPT ![j].pc = "sleep",
                                         ![j].statuses = Append(@, status),
                                         ![j].waits = Append(@, r.timeout)]
               /\ retry_options' = r.policy
               /\ client_retry_options' = r.policy
    /\ TaskFrame

\* The wait of executor j is over.
TaskWakes(j) ==
    /\ tasks[j].pc = "sleep"
    /\ TaskDispatch(j)

\* Any step of executor j.
TaskRuns(j) ==
    \/ TaskStart(j)
    \/ \E status \in TaskStatuses : TaskReturns(j, status)
    \/ TaskWakes(j)

\* MaxTasks executors built through one client, none awaited yet.
ConcurrentInit ==
    /\ NoRun
    /\ retry_options \in SharedPolicies
    /\ client_retry_options = retry_options
    /\ client_raise_for_status = FALSE
    /\ life = "open"
    /\ session = "given"
    /\ closed = "None"
    /\ session_closed = FALSE
    /\ closes = <<>>
    /\ warnings = 0
    /\ gets = 0
    /\ got = NoGet
    /\ tasks = [j \in 1..MaxTasks |-> IdleTask]

ConcurrentNext == \E j \in 1..MaxTasks : TaskRuns(j)

ConcurrentSpec == ConcurrentInit /\ [][ConcurrentNext]_vars

\* Executor 1 is scheduled fairly; the others may stay where they are for
\* any length of time.
ConcurrentFairSpec == ConcurrentSpec /\ WF_vars(TaskRuns(1))

\* -------------------------------------------------------- attempt budget
\* An executor just built for one GET of URL 1 by a client holding the same
\* policy and flag, not yet awaited.
BuiltForGet ==
    /\ params_list = <<[method |-> "GET", url |-> 1, headers |-> Dict(EmptyDict),
                        trace_request_ctx |-> NoDict]>>
    /\ call = [NoCall EXCEPT !.entry = "request", !.method = "GET",
                             !.url = [shape |-> "str", items |-> <<1>>]]
    /\ client_retry_options = retry_options
    /\ client_raise_for_status = raise_for_status
    /\ usage = "await"
    /\ open_responses = {}
    /\ exits = 0
    /\ exit_exc = FALSE
    /\ exit_closes = 0
    /\ closed_by = "none"
    /\ pc = "idle"
    /\ current_attempt = 0
    /\ in_flight = NoRequest
    /\ retry_wait = 0
    /\ response = NoResponse
    /\ raised = NoError
    /\ calls = 0
    /\ sleeps = 0
    /\ history = <<>>

\* RetryOptionsBase.__init__ stores `attempts` as given: ExponentialRetry(attempts=0)
\* is constructed like any other policy.
ZeroInit ==
    /\ OtherIdle
    /\ \E st \in {NoArg, Arg({404})}, ex \in ExceptionsArgs, ra \in BOOLEAN, cb \in BOOLEAN :
          /\ retry_options = ExponentialRetry(0, st, ex, NoArg, ra, cb)
          /\ exceptions_arg = ex
    /\ raise_for_status \in BOOLEAN
    /\ BuiltForGet

ZeroSpec == ZeroInit /\ [][Next]_vars

\* While the executor is in its wait, another task assigns a lower value
\* (1 or more) to `attempts` of the policy object, which the executor and
\* the client both hold: `retry_client.retry_options.attempts = n`.
LowerAttempts(n) ==
    /\ pc = "sleep"
    /\ n < retry_options.attempts
    /\ retry_options' = [retry_options EXCEPT !.attempts = n]
    /\ client_retry_options' = retry_options'
    /\ UNCHANGED <<exceptions_arg, raise_for_status, params_list, pc, current_attempt,
                   in_flight, retry_wait, response, raised, calls, sleeps, history,
                   open_responses, client_raise_for_status, call, usage, scope_vars,
                   other_vars>>

\* The policy starts with attempts = MaxAttempts, the largest value it has
\* during the logical request.
LowerInit ==
    /\ OtherIdle
    /\ \E ex \in {NoArg, Arg({"Exception"})}, cb \in BOOLEAN :
          /\ retry_options = ExponentialRetry(MaxAttempts, NoArg, ex, NoArg, TRUE, cb)
          /\ exceptions_arg = ex
    /\ raise_for_status = FALSE
    /\ BuiltForGet

LowerNext ==
    \/ Next
    \/ \E n \in 1..(MaxAttempts - 1) : LowerAttempts(n)

LowerSpec == LowerInit /\ [][LowerNext]_vars

\* ---------------------------------------------------------- policy reuse
\* The Fibonacci step of the client's policy up to which the caller starts
\* one more request.
MaxStep == 13

\* RetryClient(retry_options=FibonacciRetry(attempts, multiplier=1.0,
\* max_timeout=5.0, exceptions={Exception}, evaluate_response_callback=cb))
ReusedPolicy ==
    [FibonacciRetry(MaxAttempts, 10, 50, Arg({"Exception"}))
        EXCEPT !.evaluate_response_callback = TRUE]

\* The client right after its construction; no call was made.
ReuseInit ==
    /\ OtherIdle
    /\ NoRun
    /\ retry_options = NoPolicy
    /\ client_retry_options = ReusedPolicy
    /\ client_raise_for_status = FALSE

\* One GET after another through the client, none with a policy of its own.
ReuseNext ==
    \/ /\ client_retry_options.current_step < MaxStep
       /\ MakeRequest("GET", [shape |-> "str", items |-> Urls(1)], NoDict, NoDict,
                      NoPolicyArg, NoFlag)
    \/ Next
    \/ NextCall

ReuseSpec == ReuseInit /\ [][ReuseNext]_vars

\* -------------------------------------------------------------- re-entry
\* Variant: the attempt counter is kept from one run of the loop to the next.
loop_start_resumes(attempt) == attempt

\* `current_attempt = 0`, the first statement of _do_request: the counter is
\* a local of the coroutine, whatever an earlier run counted up to.
loop_start(attempt) == 0

\* The executor is awaited (use = "await") or entered (use = "scope") once
\* more after a run ended: __await__ / __aenter__ call _do_request anew.
\* self._response is not touched. The model runs an executor twice, the
\* second time only when its call cap leaves room for a whole budget.
Reenter(use) ==
    /\ pc \in Terminal
    /\ \A i \in DOMAIN history : history[i].attempt = 1 => i = 1
    /\ calls + retry_options.attempts <= CallCap
    /\ usage' = use
    /\ current_attempt' = loop_start(current_attempt) + 1
    /\ in_flight' = Request(loop_start(current_attempt) + 1)
    /\ calls' = calls + 1
    /\ pc' = "request"
    /\ raised' = NoError
    /\ UNCHANGED <<retry_options, exceptions_arg, raise_for_status, params_list,
                   retry_wait, response, sleeps, history, open_responses,
                   client_retry_options, client_raise_for_status, call, scope_vars,
                   other_vars>>

\* An executor built for one GET under a policy with a callback that retries
\* every error.
ReenterInit ==
    /\ OtherIdle
    /\ \E n \in 1..MaxAttempts :
          retry_options = ExponentialRetry(n, NoArg, Arg({"Exception"}), NoArg, TRUE, TRUE)
    /\ exceptions_arg = Arg({"Exception"})
    /\ raise_for_status = FALSE
    /\ BuiltForGet

\* One executor, awaited or entered, and then once more; the caller leaves
\* the closing of responses to the executor.
ReenterNext ==
    \/ Next
    \/ \E exc \in BOOLEAN : ScopeExit(exc)
    \/ \E use \in {"await", "scope"} : Reenter(use)

ReenterSpec == ReenterInit /\ [][ReenterNext]_vars

\* ------------------------------------------------------------ properties
Last(seq) == seq[Len(seq)]

\* The status alone qualifies the response for a retry.
EligibleStatus(status) ==
    \/ status >= 500 /\ retry_options.retry_all_server_errors
    \/ status \in retry_options.statuses

MethodAllowed(h) == Upper(h.method) \in retry_options.methods

AllowListed(e) == \E exc \in retry_options.exceptions : exc \in Mro(e.type)

\* The attempt received a response (whatever happened to it afterwards).
GotResponse(h) == h.status # 0

\* Every attempt so far received a response with a retry-eligible status.
OnlyEligibleStatuses ==
    \A i \in DOMAIN history : GotResponse(history[i]) /\ EligibleStatus(history[i].status)

\* Attempt i is the one the logical request ended with.
TerminalAt(i) == i = Len(history) /\ pc \in Terminal

\* C1: one logical request issues at most `attempts` underlying calls,
\* whatever the outcomes of the calls are.
C1_AttemptBudget == calls <= retry_options.attempts /\ current_attempt = calls

C1_Witness ==
    /\ pc \in Terminal
    /\ retry_options.attempts = MaxAttempts
    /\ calls = MaxAttempts
    /\ \E i, j \in DOMAIN history : history[i].error # NoError /\ history[j].error = NoError

\* C2 as stated: when every response carries a retry-eligible status and
\* raise-on-error is off, the request ends after exactly `attempts` calls by
\* returning the last response.
C2_Original ==
    (pc \in Terminal /\ ~raise_for_status /\ OnlyEligibleStatuses)
        => /\ pc = "success"
           /\ calls = retry_options.attempts
           /\ response.id = retry_options.attempts
           /\ response.status = Last(history).status
           /\ raised = NoError

\* C2 amended: the same, provided the method of every attempt is in the
\* policy's allowed method set.
C2_ExactlyNCalls ==
    (/\ pc \in Terminal
     /\ ~raise_for_status
     /\ OnlyEligibleStatuses
     /\ \A i \in DOMAIN history : MethodAllowed(history[i]))
        => /\ pc = "success"
           /\ calls = retry_options.attempts
           /\ Len(history) = retry_options.attempts
           /\ response.id = retry_options.attempts
           /\ response.status = Last(history).status
           /\ raised = NoError

C2_Witness ==
    /\ pc = "success"
    /\ ~raise_for_status
    /\ OnlyEligibleStatuses
    /\ \A i \in DOMAIN history : MethodAllowed(history[i])
    /\ calls = MaxAttempts
    /\ \E i, j \in DOMAIN history : history[i].status = 404 /\ history[j].status = 500

\* The response rule of the policy asks for a retry of the attempt's response.
ResponseEligible(h) ==
    /\ h.attempt # retry_options.attempts
    /\ MethodAllowed(h)
    /\ EligibleStatus(h.status) \/ (retry_options.evaluate_response_callback /\ h.cb = "false")

RetryEligibleFailure(h) ==
    IF h.error # NoError THEN AllowListed(h.error)
    ELSE GotResponse(h) /\ ResponseEligible(h)

NonEligibleSuccess(h) ==
    /\ h.error = NoError
    /\ h.status \in 200..399
    /\ ~ResponseEligible(h)

\* C3: retry-eligible failures on calls 1..k-1 and a non-retry-eligible
\* success on call k <= attempts: exactly k calls are issued, the k-th
\* response is returned and nothing is issued after it.
C3_StopsAtSuccess ==
    \A k \in DOMAIN history :
        (/\ k <= retry_options.attempts
         /\ \A i \in 1..(k - 1) : RetryEligibleFailure(history[i])
         /\ NonEligibleSuccess(history[k]))
            => /\ Len(history) = k
               /\ calls = k
               /\ pc = "success"
               /\ response.id = k
               /\ response.status = history[k].status
               /\ raised = NoError

C3_Witness ==
    /\ pc = "success"
    /\ calls = MaxAttempts - 1
    /\ retry_options.attempts = MaxAttempts
    /\ RetryEligibleFailure(history[1])
    /\ history[1].error # NoError
    /\ NonEligibleSuccess(Last(history))

\* C4: once started, a logical request reaches Success or Failed, provided
\* calls and waits complete.
C4_Terminates == (pc # "idle") ~> (pc \in Terminal)

C4_Witness ==
    /\ pc \in Terminal
    /\ sleeps = MaxAttempts - 1
    /\ calls = MaxAttempts

\* C5: an attempt that raises is retried (one wait, then one more call) only
\* when fewer than `attempts` attempts were made and the error is an instance
\* of a configured exception type; otherwise the error propagates at once,
\* with no wait and no further call.
C5_ErrorStep ==
    /\ (pc = "request" /\ Len(history') = Len(history) + 1 /\ Last(history').error # NoError)
         => IF current_attempt < retry_options.attempts /\ AllowListed(Last(history').error)
            THEN pc' = "sleep" /\ sleeps' = sleeps + 1 /\ calls' = calls /\ raised' = NoError
            ELSE /\ pc' = "failed" /\ raised' = Last(history').error
                 /\ sleeps' = sleeps /\ calls' = calls
    /\ pc = "sleep" => pc' = "request" /\ calls' = calls + 1 /\ sleeps' = sleeps
    /\ pc = "failed" => pc' = "failed" /\ calls' = calls /\ sleeps' = sleeps

C5_RetryOnlyAllowListed == [][C5_ErrorStep]_vars

C5_Witness ==
    /\ pc = "failed"
    /\ Len(history) >= 2
    /\ history[1].error # NoError
    /\ current_attempt < retry_options.attempts
    /\ ~AllowListed(raised)

\* C6: the error a failed logical request surfaces is the very error the
\* last attempt raised; no response is held.
C6_LastErrorSurfaces ==
    pc = "failed"
        => /\ raised # NoError
           /\ raised = Last(history).error
           /\ raised.id = calls
           /\ response = NoResponse

C6_Witness ==
    /\ pc = "failed"
    /\ Len(history) >= 2
    /\ history[1].error # NoError
    /\ history[1].error.type # raised.type

\* C7: a policy built without an `exceptions` argument retries every error
\* raised by an attempt while attempts remain.
C7_DefaultRetriesAll ==
    \A i \in DOMAIN history :
        (/\ ~exceptions_arg.given
         /\ history[i].error # NoError
         /\ history[i].attempt < retry_options.attempts)
            => ~TerminalAt(i)

\* The policy's sets and callback leave no response to retry.
NothingToRetry ==
    /\ ~retry_options.retry_all_server_errors
    /\ retry_options.statuses = {}
    /\ ~retry_options.evaluate_response_callback

\* C8 as stated: with retry_all_server_errors off, no statuses and no
\* callback, the first response is returned after exactly one attempt.
C8_Original ==
    (NothingToRetry /\ history # <<>> /\ GotResponse(history[1]))
        => /\ pc = "success"
           /\ calls = 1
           /\ response.id = 1
           /\ response.status = history[1].status

\* C8 amended: the same, with raise-on-error off.
C8_OneAttempt ==
    (NothingToRetry /\ ~raise_for_status /\ history # <<>> /\ GotResponse(history[1]))
        => /\ pc = "success"
           /\ calls = 1
           /\ Len(history) = 1
           /\ response.id = 1
           /\ response.status = history[1].status
           /\ raised = NoError

C8_Witness ==
    /\ NothingToRetry
    /\ ~raise_for_status
    /\ retry_options.attempts = MaxAttempts
    /\ pc = "success"
    /\ response.status = 500

\* C9: a response to an attempt whose method is not in the allowed method
\* set is never retried; the logical request ends with that attempt.
C9_MethodNotAllowedTerminal ==
    \A i \in DOMAIN history :
        (GotResponse(history[i]) /\ ~MethodAllowed(history[i])) => TerminalAt(i)

\* C10: on a non-final attempt with an allowed method and a status that does
\* not qualify, the response is terminal without a callback, terminal when
\* the callback returns True and retried when the callback returns False.
C10_CallbackDecides ==
    \A i \in DOMAIN history :
        (/\ GotResponse(history[i])
         /\ history[i].attempt < retry_options.attempts
         /\ MethodAllowed(history[i])
         /\ ~EligibleStatus(history[i].status))
            => /\ ~retry_options.evaluate_response_callback => TerminalAt(i)
               /\ history[i].cb = "true" => TerminalAt(i)
               /\ history[i].cb = "false" => ~TerminalAt(i)

\* The response rule took a decision on the attempt's response (the callback,
\* if awaited, returned) and the decision was not to retry.
JudgedNotEligible(h) ==
    /\ GotResponse(h)
    /\ h.cb # "raised"
    /\ ~ResponseEligible(h)

\* raise_for_status() raised on the attempt's response.
StatusErrorAt(h) == h.error.origin = "raise_for_status"

\* C11: the request fails with a status error exactly when raise-on-error is
\* on and the terminal response has a status >= 400; the error carries that
\* status; a response of an attempt that is followed by another attempt
\* raised no status error; with a retry-eligible status on every attempt (of
\* an allowed method) the status error surfaces after exactly `attempts` calls.
C11_StatusErrorOnlyTerminal ==
    /\ (pc \in Terminal /\ JudgedNotEligible(Last(history)))
         => /\ (pc = "failed" /\ StatusErrorAt(Last(history)))
                <=> (raise_for_status /\ Last(history).status >= 400)
            /\ pc = "failed" => raised.status = Last(history).status
    /\ \A i \in DOMAIN history : StatusErrorAt(history[i]) => TerminalAt(i)
    /\ (/\ pc = "failed"
        /\ raised.origin = "raise_for_status"
        /\ OnlyEligibleStatuses
        /\ \A i \in DOMAIN history : MethodAllowed(history[i]))
         => calls = retry_options.attempts

\* C12: a response the response rule judges not retry-eligible ends the
\* logical request: no wait and no attempt follows it.
C12_NotEligibleIsTerminal ==
    \A i \in DOMAIN history : JudgedNotEligible(history[i]) => TerminalAt(i)

\* C13: a response the executor decides to retry is released before the
\* wait begins: while the executor sleeps the response of the attempt just
\* made is not open, an executor never holds two open responses, and once the
\* logical request has ended no response of a retried attempt is open.
C13_RetriedResponseReleased ==
    /\ (pc = "sleep" /\ GotResponse(Last(history)))
           => Last(history).attempt \notin open_responses
    /\ Cardinality(open_responses) <= 1
    /\ pc \in Terminal
           => \A i \in DOMAIN history :
                  (GotResponse(history[i]) /\ ~TerminalAt(i)) => i \notin open_responses

\* The scope was entered (async with) and has been left at least once.
ScopeLeft == usage = "scope" /\ pc = "success" /\ exits >= 1

\* C14: once the scope of a successful executor has been left, normally or
\* by an error in its body, the response is closed; the exit closed it
\* exactly when it was still open, did nothing when the caller had released
\* it, and over all exits and caller releases it was closed exactly once.
C14_ScopeExitReleasesOnce ==
    /\ exit_closes <= 1
    /\ exit_closes = 1 <=> closed_by = "exit"
    /\ closed_by = "caller" => exit_closes = 0
    /\ ScopeLeft
          => /\ response.id \notin open_responses
             /\ closed_by \in {"exit", "caller"}
             /\ exit_closes = (IF closed_by = "exit" THEN 1 ELSE 0)

\* The scope was left twice, the second time after an error in the body, and
\* the first exit did the closing.
C14_Witness ==
    /\ ScopeLeft
    /\ exits = MaxExits
    /\ exit_exc
    /\ closed_by = "exit"
    /\ exit_closes = 1

\* The caller released the response inside the scope; the exit did nothing.
C14_WitnessCallerReleased ==
    /\ ScopeLeft
    /\ closed_by = "caller"
    /\ exit_closes = 0

\* C15: an awaited executor runs the same loop and hands over the terminal
\* response open; the executor itself never closes it (no scope exit runs),
\* so it is closed only once the caller has released it.
C15_AwaitReturnsOpen ==
    (usage = "await" /\ pc = "success")
        => /\ exits = 0
           /\ exit_closes = 0
           /\ response.id = calls
           /\ calls <= retry_options.attempts
           /\ response.id \in open_responses <=> closed_by = "none"
           /\ closed_by \in {"none", "caller"}

\* An awaited executor returned a response after a retry and the caller has
\* not released it yet.
C15_Witness ==
    /\ usage = "await"
    /\ pc = "success"
    /\ calls > 1
    /\ response.id \in open_responses

\* Entry i of a sequence, or its last entry when i is beyond its end.
EntryOrLast(seq, i) == IF i <= Len(seq) THEN seq[i] ELSE seq[Len(seq)]

\* C16: attempt i of a verb call with a list or tuple of L >= 1 URLs goes to
\* URL i when i <= L and to the last URL when i > L (a single URL is used
\* for every attempt), with the method of the call; attempt i of `requests`
\* is issued with the method and URL of entry i of its list, or of the last
\* entry when i > L.
C16_AttemptUsesEntryOrLast ==
    \A i \in DOMAIN history :
        /\ call.entry = "request"
              => /\ history[i].url = EntryOrLast(call.url.items, i)
                 /\ history[i].method = call.method
                 /\ call.url.shape \in {"str", "yarl"} => history[i].url = call.url.items[1]
        /\ call.entry = "requests"
              => /\ history[i].url = EntryOrLast(call.params_list, i).url
                 /\ history[i].method = EntryOrLast(call.params_list, i).method
                 /\ history[i].headers = EntryOrLast(call.params_list, i).headers

\* A verb call with a list of two URLs made three attempts: the first went
\* to URL 1, the second and the third to URL 2.
C16_Witness ==
    /\ call.entry = "request"
    /\ call.url.shape = "list"
    /\ Len(call.url.items) = 2
    /\ Len(history) = 3
    /\ history[1].url = 1
    /\ history[2].url = 2
    /\ history[3].url = 2

\* The url argument is an empty list or tuple, or not of a supported type.
BadUrl(url) ==
    \/ url.shape \notin {"str", "yarl", "list", "tuple"}
    \/ url.shape \in {"list", "tuple"} /\ Len(url.items) = 0

\* C17: a verb call with an empty list or tuple, or with a url that is not a
\* str, a URL object, a list or a tuple, ends in ValueError at the call:
\* no executor is built and no underlying call is made. No other verb call
\* ends in ValueError.
C17_BadUrlsRejected ==
    /\ (call.entry = "request" /\ BadUrl(call.url))
          => /\ pc = "value_error"
             /\ calls = 0
             /\ history = <<>>
             /\ params_list = <<>>
             /\ retry_options = NoPolicy
    /\ pc = "value_error" => (call.entry = "request" /\ BadUrl(call.url))

\* A call with a set of URLs was rejected.
C17_Witness ==
    /\ call.entry = "request"
    /\ call.url.shape = "set"
    /\ pc = "value_error"
    /\ calls = 0

\* A call with an empty tuple was rejected.
C17_WitnessEmpty ==
    /\ call.entry = "request"
    /\ call.url.shape = "tuple"
    /\ Len(call.url.items) = 0
    /\ pc = "value_error"

\* An executor was built for the call.
ExecutorBuilt == pc \notin {"client", "value_error", "assertion_error"}

\* C20: the executor of a call runs under the policy and the raise-on-error
\* flag passed to the call when they were passed (False included), and under
\* the client's own otherwise; no step of a call, with or without
\* overrides, changes the client's policy or flag.
C20_PerCallOverride ==
    /\ [](ExecutorBuilt
            => /\ retry_options = (IF call.retry_options.given
                                   THEN call.retry_options.value
                                   ELSE client_retry_options)
               /\ raise_for_status = (IF call.raise_for_status.given
                                      THEN call.raise_for_status.value
                                      ELSE client_raise_for_status))
    /\ [][UNCHANGED <<client_retry_options, client_raise_for_status>>]_vars

\* A call overrode a client default of True with False and the client's
\* policy with its own, and ran to its end under the overrides.
C20_Witness ==
    /\ pc \in Terminal
    /\ call.raise_for_status = Flag(FALSE)
    /\ client_raise_for_status
    /\ ~raise_for_status
    /\ call.retry_options.given
    /\ retry_options # client_retry_options
    /\ calls > client_retry_options.attempts

\* A call without overrides ran under the client's policy and flag.
C20_WitnessDefaults ==
    /\ pc \in Terminal
    /\ ~call.raise_for_status.given
    /\ ~call.retry_options.given
    /\ client_raise_for_status
    /\ raise_for_status
    /\ retry_options = client_retry_options

\* The trace fields the caller supplied for attempt k: those of the verb
\* call, or those of the entry of the `requests` list used for attempt k.
CallerTrace(k) ==
    LET ctx == IF call.entry = "requests"
               THEN EntryOrLast(call.params_list, k).trace_request_ctx
               ELSE call.trace_request_ctx
    IN IF ctx.given THEN ctx.value ELSE EmptyDict

\* {current_attempt: k} merged with the caller's fields, the caller's value
\* winning on a key collision.
ExpectedTrace(k) ==
    [key \in DOMAIN CallerTrace(k) \cup {"current_attempt"} |->
        IF key \in DOMAIN CallerTrace(k) THEN CallerTrace(k)[key] ELSE k]

\* C18: the k-th attempt dispatched (k = 1, 2, 3, ... without gap or
\* repetition) carries the trace context {current_attempt: k} merged with the
\* caller-supplied trace fields, the caller's value winning on a collision.
C18_TraceContextPerAttempt ==
    \A k \in DOMAIN history :
        /\ history[k].attempt = k
        /\ history[k].trace_request_ctx = ExpectedTrace(k)

\* C19: every attempt of a verb call made with headers and trace fields is
\* dispatched with those headers and with every one of those trace fields,
\* whether the url is a single URL or a list or tuple of any length >= 1.
C19_CallerFieldsOnEveryAttempt ==
    call.entry = "request"
        => \A i \in DOMAIN history :
               /\ call.headers.given => history[i].headers = call.headers
               /\ call.trace_request_ctx.given
                     => \A key \in DOMAIN call.trace_request_ctx.value :
                            /\ key \in DOMAIN history[i].trace_request_ctx
                            /\ history[i].trace_request_ctx[key]
                                   = call.trace_request_ctx.value[key]

\* Some close() of the client ran to completion.
CloseCompleted == \E i \in DOMAIN closes : closes[i] \in {"close", "aexit"}

\* C21: a client that built its own session logs the "not closed" warning at
\* destruction exactly when no close(), direct or through the client's scope
\* exit, completed before; a client around a given session, and one whose
\* construction failed, logs nothing; __del__ never raises.
C21_WarnIffNotClosed ==
    /\ life # "del_raised"
    /\ warnings <= 1
    /\ life = "deleted"
          => /\ session = "own" => (warnings = 1 <=> ~CloseCompleted)
             /\ session # "own" => warnings = 0
    /\ life # "deleted" => warnings = 0

\* A client with its own session was destroyed after a close() that did not
\* complete, and warned.
C21_Witness ==
    /\ life = "deleted"
    /\ session = "own"
    /\ closes = <<"interrupted">>
    /\ warnings = 1

\* A client with its own session was closed by its scope exit, then
\* destroyed without a warning.
C21_WitnessClosed ==
    /\ life = "deleted"
    /\ session = "own"
    /\ closes = <<"aexit">>
    /\ warnings = 0

\* A client whose construction failed was destroyed.
C21_WitnessInitFailed ==
    /\ life = "deleted"
    /\ session = "none"
    /\ closed = "unset"
    /\ warnings = 0

\* The attempt was cut short by a cancellation.
CancelledAt(h) == h.error.type = "CancelledError"

\* C22: a cancellation delivered during the wait between attempts or during
\* an underlying call ends the logical request there: the caller gets the
\* CancelledError, and no wait and no attempt follows, whatever exception
\* classes the policy retries on.
C22_CancelAborts ==
    /\ \A i \in DOMAIN history :
          CancelledAt(history[i])
              => /\ i = Len(history)
                 /\ pc = "cancelled"
                 /\ raised = history[i].error
    /\ pc = "cancelled"
          => /\ raised.type = "CancelledError"
             /\ raised.id = calls
             /\ current_attempt = calls
             /\ raised.origin = "sleep" => (sleeps = calls /\ Len(history) = calls)
             /\ raised.origin = "request" => sleeps = calls - 1

\* Cancelled in the wait after the first attempt failed with an error the
\* policy retries on, with attempts left.
C22_Witness ==
    /\ pc = "cancelled"
    /\ raised.origin = "sleep"
    /\ calls = 1
    /\ retry_options.attempts > 1
    /\ "Exception" \in retry_options.exceptions

\* Cancelled during the second underlying call, under a policy that
\* retries on every Exception and has attempts left.
C22_WitnessInFlight ==
    /\ pc = "cancelled"
    /\ raised.origin = "request"
    /\ calls = 2
    /\ retry_options.attempts > 2
    /\ "Exception" \in retry_options.exceptions

RECURSIVE Power(_, _)
\* b to the power e, by repeated multiplication.
Power(b, e) == IF e = 0 THEN 1 ELSE b * Power(b, e - 1)

\* 0.1, 0.2, 0.4, ..., 25.6, 30.0 in tenths of a second.
ExponentialTable == <<1, 2, 4, 8, 16, 32, 64, 128, 256, 300>>

\* C26: ExponentialRetry.get_timeout(attempt) is
\* min(start_timeout * factor^attempt, max_timeout) for every attempt >= 0;
\* with start 0.1, factor 2 and max 30 the attempts 0..9 give 0.1, 0.2, 0.4,
\* 0.8, 1.6, 3.2, 6.4, 12.8, 25.6, 30.0; the call leaves the policy as it was.
C26_ExponentialTimeout ==
    (class_of(retry_options) = "ExponentialRetry" /\ gets >= 1)
        => /\ got.ok
           /\ got.timeout =
                  Min(retry_options.start_timeout * Power(retry_options.factor, got.attempt),
                      retry_options.max_timeout)
           /\ (retry_options = TestExponential /\ got.attempt + 1 \in DOMAIN ExponentialTable)
                 => got.timeout = ExponentialTable[got.attempt + 1]
           /\ retry_options = client_retry_options

\* get_timeout(9) on ExponentialRetry(attempts=10) returned the maximum.
C26_Witness ==
    /\ retry_options = TestExponential
    /\ gets >= 2
    /\ got.attempt = 9
    /\ got.timeout = 300

\* C28: a ListRetry built from a list has attempts = length of the list, and
\* get_timeout(i) is element i (0-based) of the list for every i below the
\* length; the policy is not changed by the call.
C28_ListTimeout ==
    class_of(retry_options) = "ListRetry"
        => /\ retry_options.attempts = Len(retry_options.timeouts)
           /\ (gets >= 1 /\ got.attempt < Len(retry_options.timeouts))
                 => /\ got.ok
                    /\ got.timeout = client_retry_options.timeouts[got.attempt + 1]
           /\ retry_options = client_retry_options

\* get_timeout(3) on the list of ten returned its fourth element.
C28_Witness ==
    /\ retry_options = TestList
    /\ retry_options.attempts = 10
    /\ gets >= 2
    /\ got.attempt = 3
    /\ got.timeout = 43

RECURSIVE Fib(_)
\* 1, 1, 2, 3, 5, 8, ...: Fib(n) for n >= 1 is the n-th step 2, 3, 5, ...
Fib(n) == IF n <= 0 THEN 1 ELSE Fib(n - 1) + Fib(n - 2)

\* 4, 6, 10, 16, 26, 42, 60, 60, 60, 60 in tenths of a second.
FibonacciTable == <<40, 60, 100, 160, 260, 420, 600, 600, 600, 600>>

\* C30: the n-th get_timeout call on a fresh FibonacciRetry returns
\* min(multiplier * F(n), max_timeout) with F = 2, 3, 5, 8, ..., whatever the
\* attempt index passed; with multiplier 2 and max 60 ten calls give 4, 6,
\* 10, 16, 26, 42, 60, 60, 60, 60; after n calls the pair (prev_step,
\* current_step) is (F(n-1), F(n)).
C30_FibonacciTimeout ==
    class_of(retry_options) = "FibonacciRetry"
        => /\ retry_options.prev_step = Fib(gets - 1)
           /\ retry_options.current_step = Fib(gets)
           /\ gets >= 1
                 => /\ got.ok
                    /\ got.timeout =
                           Min(retry_options.multiplier * Fib(gets), retry_options.max_timeout)
           /\ (retry_options.multiplier = 20 /\ retry_options.max_timeout = 600
                /\ gets \in DOMAIN FibonacciTable)
                 => got.timeout = FibonacciTable[gets]

\* The seventh call, made with attempt index 0, returned the maximum.
C30_Witness ==
    /\ class_of(retry_options) = "FibonacciRetry"
    /\ retry_options.multiplier = 20
    /\ gets = 7
    /\ got.attempt = 0
    /\ got.timeout = 600
    /\ retry_options.current_step = 34

\* C27: under an Exponential policy the wait before the first retry is
\* computed with attempt index 0 and is start_timeout; the wait before the
\* j-th retry is min(start_timeout * factor^(j-1), max_timeout).
C27_FirstWaitIsStart ==
    (pc = "sleep" /\ class_of(retry_options) = "ExponentialRetry")
        => /\ sleeps = 1 => retry_wait = retry_options.start_timeout
           /\ retry_wait =
                  Min(retry_options.start_timeout * Power(retry_options.factor, sleeps - 1),
                      retry_options.max_timeout)

\* C29: an executor under a ListRetry of length >= 1 never calls get_timeout
\* with an index at or beyond the length: no IndexError comes out of the
\* policy, and every wait is an element of the list.
C29_ListIndexInRange ==
    class_of(retry_options) = "ListRetry"
        => /\ raised.type # "IndexError"
           /\ sleeps < Len(retry_options.timeouts) \/ sleeps = 0
           /\ pc = "sleep"
                 => /\ current_attempt < Len(retry_options.timeouts)
                    /\ \E i \in DOMAIN retry_options.timeouts :
                           retry_wait = retry_options.timeouts[i]

\* Every attempt of a list of MaxAttempts durations was used up.
C29_Witness ==
    /\ class_of(retry_options) = "ListRetry"
    /\ Len(retry_options.timeouts) = MaxAttempts
    /\ pc \in Terminal
    /\ calls = MaxAttempts
    /\ sleeps = MaxAttempts - 1
    /\ retry_wait = retry_options.timeouts[MaxAttempts]

\* C25: after the attempts of the client's policy object were changed
\* through the retry_options property, every request started through the
\* client without a policy of its own runs under the new value: it makes at
\* most that many calls. A request with its own policy is not affected.
C25_MutatedDefaultApplies ==
    ExecutorBuilt
        => /\ ~call.retry_options.given
                 => /\ retry_options = client_retry_options
                    /\ calls <= client_retry_options.attempts
                    /\ (pc = "success" /\ Last(history).status >= MIN_SERVER_ERROR_STATUS)
                          => calls = client_retry_options.attempts
           /\ call.retry_options.given => retry_options = call.retry_options.value

\* The attempts were set to 2 (no client is constructed with 2); the next
\* request got 500 twice and ended with the second response.
C25_Witness ==
    /\ client_retry_options.attempts = 2
    /\ ~call.retry_options.given
    /\ pc = "success"
    /\ calls = 2
    /\ Last(history).status = 500

Fresh(opts) ==
    IF class_of(opts) = "FibonacciRetry"
    THEN [opts EXCEPT !.prev_step = 1, !.current_step = 1]
    ELSE opts

RECURSIVE AloneWaits(_, _, _)
\* The waits of retries k..n of a request that has the policy to itself.
AloneWaits(opts, k, n) ==
    IF k > n THEN <<>>
    ELSE LET r == policy_get_timeout(opts, retry_index(k))
         IN <<r.timeout>> \o AloneWaits(r.policy, k + 1, n)

\* The number of calls a request makes alone against the given answers: up
\* to the first answer below 500, or the whole budget.
AloneCalls(statuses) ==
    LET final == {k \in DOMAIN statuses :
                     statuses[k] < MIN_SERVER_ERROR_STATUS \/ k = retry_options.attempts}
    IN IF final = {} THEN 0 ELSE CHOOSE k \in final : \A m \in final : k <= m

\* C24: a request running at the same time as others through one client
\* makes the calls, waits the waits and ends with the response it would
\* have alone against the same answers of the target.
C24_ConcurrentRequestsIndependent ==
    \A j \in DOMAIN tasks :
        tasks[j].pc = "success"
            => /\ tasks[j].calls = AloneCalls(tasks[j].statuses)
               /\ tasks[j].calls = Len(tasks[j].statuses)
               /\ tasks[j].waits = AloneWaits(Fresh(retry_options), 1, tasks[j].calls - 1)

\* C31: under a policy with attempts = 0, a logical request whose every call
\* is answered with a retry-eligible response issues at most one call.
C31_ZeroAttemptsOneCall ==
    (/\ retry_options.attempts = 0
     /\ OnlyEligibleStatuses
     /\ \A i \in DOMAIN history : MethodAllowed(history[i]))
        => calls <= 1

\* C32: when `attempts` of the shared policy is lowered during a wait, the
\* logical request issues no more calls than the largest value `attempts`
\* had during the request (MaxAttempts, the value it starts with).
C32_LoweredBudgetBounds == calls <= MaxAttempts

\* C33: an error of an allow-listed type raised by an attempt whose method
\* is not in the policy's method set is retried while attempts remain: the
\* logical request does not end with that attempt.
C33_ErrorRetryIgnoresMethods ==
    \A i \in DOMAIN history :
        (/\ history[i].error # NoError
         /\ ~MethodAllowed(history[i])
         /\ AllowListed(history[i].error)
         /\ history[i].attempt < retry_options.attempts)
            => /\ ~TerminalAt(i)
               /\ sleeps >= i

C33_Witness ==
    /\ Len(history) >= 2
    /\ history[1].error # NoError
    /\ history[1].error.origin = "request"
    /\ ~MethodAllowed(history[1])
    /\ history[2].attempt = 2
    /\ sleeps >= 1

\* Where the loop stands, in calls issued, calls completed and waits entered.
C34_Positions ==
    /\ calls - Len(history) \in {0, 1}
    /\ pc = "idle" => calls = 0 /\ sleeps = 0
    /\ pc = "request" => calls - Len(history) = 1 /\ sleeps = calls - 1
    /\ pc = "sleep" => calls = Len(history) /\ sleeps = calls
    /\ pc \in Terminal => calls = Len(history) /\ sleeps = calls - 1

C34_Step ==
    /\ calls' # calls => pc \in {"idle", "sleep"} /\ pc' = "request" /\ calls' = calls + 1
    /\ sleeps' # sleeps => pc = "request" /\ pc' = "sleep" /\ sleeps' = sleeps + 1
    /\ pc \in Terminal => pc' = pc /\ calls' = calls /\ sleeps' = sleeps

\* C34: the attempts of one logical request are strictly sequential: at
\* most one call is in flight, a call is issued only at the start or when a
\* wait ends, a wait is entered only when a call has completed, the number
\* of waits of a finished request is its number of calls less one, and
\* nothing is issued or waited for after Success or Failed.
C34_StrictlySequential == [](C34_Positions) /\ [][C34_Step]_vars

C34_Witness ==
    /\ pc = "success"
    /\ calls = MaxAttempts
    /\ sleeps = calls - 1
    /\ history[1].error # NoError
    /\ history[2].error = NoError

\* The wait a Fibonacci policy object gave last (0 when it gave none yet).
LastFibonacciWait(opts) ==
    IF opts.current_step = 1 THEN 0
    ELSE Min(opts.multiplier * opts.current_step, opts.max_timeout)

C35_Step ==
    /\ (pc = "request" /\ pc' = "sleep")
         => /\ retry_wait' =
                   Min(client_retry_options.multiplier
                           * (client_retry_options.prev_step + client_retry_options.current_step),
                       client_retry_options.max_timeout)
            /\ retry_wait' >= LastFibonacciWait(client_retry_options)
            /\ LastFibonacciWait(client_retry_options) = client_retry_options.max_timeout
                  => retry_wait' = client_retry_options.max_timeout
            /\ client_retry_options'.prev_step = client_retry_options.current_step
            /\ client_retry_options'.current_step =
                   client_retry_options.prev_step + client_retry_options.current_step
    /\ ~(pc = "request" /\ pc' = "sleep") => client_retry_options' = client_retry_options

\* C35: the state of a Fibonacci policy serving as the client's default is
\* never set back: every wait of every request is the next value of the one
\* sequence min(multiplier * step, max_timeout), continued from where the
\* previous request left the object; the waits never decrease and stay at
\* max_timeout once they reached it.
C35_FibonacciNeverReset ==
    [](pc \in {"idle", "request", "sleep"} => retry_options = client_retry_options)
        /\ [][C35_Step]_vars

\* The first wait of a later request is the third value of the sequence.
C35_Witness ==
    /\ pc = "sleep"
    /\ sleeps = 1
    /\ retry_wait = 50
    /\ client_retry_options.current_step = 5

\* A later request still waits max_timeout.
C35_WitnessAtMax ==
    /\ pc = "sleep"
    /\ sleeps = 1
    /\ retry_wait = 50
    /\ client_retry_options.current_step = 13

\* C36: get_timeout of a Jitter policy never returns more than the policy's
\* max_timeout.
C36_JitterWithinMax ==
    (class_of(retry_options) = "JitterRetry" /\ gets >= 1)
        => got.timeout <= retry_options.max_timeout

\* C37: every wait an Exponential, Random or Fibonacci policy returns is at
\* least 0 and at most max_timeout; a Random wait is also at least
\* min_timeout, and below max_timeout when min_timeout < max_timeout.
C37_WaitWithinBounds ==
    (class_of(retry_options) \in {"ExponentialRetry", "RandomRetry", "FibonacciRetry"}
        /\ gets >= 1)
        => /\ got.ok
           /\ got.timeout >= 0
           /\ got.timeout <= retry_options.max_timeout
           /\ class_of(retry_options) = "RandomRetry"
                 => /\ got.timeout >= retry_options.min_timeout
                    /\ retry_options.min_timeout < retry_options.max_timeout
                          => got.timeout < retry_options.max_timeout

\* A Random policy returned its largest wait, 2.8 s of [1.0, 3.0).
C37_Witness ==
    /\ class_of(retry_options) = "RandomRetry"
    /\ retry_options.min_timeout = 10
    /\ retry_options.max_timeout = 30
    /\ got.timeout = 28
    /\ gets >= 2

\* An Exponential and a Fibonacci policy returned max_timeout.
C37_WitnessClamped ==
    /\ class_of(retry_options) \in {"ExponentialRetry", "FibonacciRetry"}
    /\ gets >= 1
    /\ got.timeout = retry_options.max_timeout

\* Call i was the last one of a run of the loop.
RunEndedAt(i) ==
    \/ i < Len(history) /\ history[i + 1].attempt = 1
    \/ i = Len(history) /\ (pc \in Terminal \/ (pc = "request" /\ current_attempt = 1))

\* The calls whose response was returned by a run (call i received response i).
ReturnedResponses ==
    {i \in DOMAIN history : RunEndedAt(i) /\ history[i].error = NoError}

\* The calls of the run that ended last.
LastRun == {i \in DOMAIN history : i > Len(history) - current_attempt}

C38_Runs ==
    /\ current_attempt <= retry_options.attempts
    /\ pc \in Terminal => Last(history).attempt = current_attempt
    /\ response.id = (IF ReturnedResponses = {} THEN 0
                      ELSE CHOOSE i \in ReturnedResponses :
                               \A k \in ReturnedResponses : k <= i)
    /\ (pc \in Terminal /\ \A i \in LastRun : history[i].status >= MIN_SERVER_ERROR_STATUS)
          => current_attempt = retry_options.attempts

C38_Step ==
    /\ (pc \in Terminal /\ pc' # pc)
          => /\ pc' = "request"
             /\ current_attempt' = 1
             /\ calls' = calls + 1
             /\ response' = response
             /\ open_responses' = open_responses
    /\ exits' # exits => (open_responses \ open_responses') \subseteq {response.id}

\* C38: an executor can be awaited or entered again after a run ended: the
\* new run starts at attempt 1 and has the whole attempt budget (a run
\* answered 5xx throughout makes `attempts` calls); the response held is the
\* one returned by the latest run that returned one, and a scope exit closes
\* no other response.
C38_ExecutorReusable == [](C38_Runs) /\ [][C38_Step]_vars

\* The second run returned a response after using the whole budget; the
\* scope exit closed it, and the response of the first run is still open.
C38_Witness ==
    /\ retry_options.attempts = MaxAttempts - 1
    /\ Len(history) = MaxAttempts
    /\ history[1].error = NoError
    /\ history[2].attempt = 1
    /\ pc = "success"
    /\ current_attempt = retry_options.attempts
    /\ response.id = MaxAttempts
    /\ exits = 1
    /\ 1 \in open_responses
    /\ response.id \notin open_responses

\* The second run failed; the response of the first run is still held.
C38_WitnessFailedRun ==
    /\ pc = "failed"
    /\ response.id = 1
    /\ Len(history) >= 2
    /\ history[2].attempt = 1

\* C39: a client built around a session it was given closes that session in
\* close() and at its scope exit, and logs no "not closed" warning when it
\* is destroyed, closed or not.
C39_GivenSessionClosedNoWarning ==
    session = "given"
        => /\ warnings = 0
           /\ life # "del_raised"
           /\ closed \in {"None", "True"}
           /\ CloseCompleted => session_closed /\ closed = "True"
           /\ (closes = <<>>) => ~session_closed /\ closed = "None"

\* Destroyed without any close() call: no warning, the session is open.
C39_Witness ==
    /\ session = "given"
    /\ life = "deleted"
    /\ closes = <<>>
    /\ ~session_closed
    /\ warnings = 0

\* Closed by the scope exit, then destroyed: the given session is closed.
C39_WitnessClosed ==
    /\ session = "given"
    /\ life = "deleted"
    /\ closes = <<"aexit">>
    /\ session_closed
    /\ closed = "True"

\* The evaluation callback was awaited for the response of the attempt.
CallbackCalled(h) == h.cb # "not_called"

\* C40: the evaluation callback is awaited for a received response only, at
\* most once for each, and never for the response of the last allowed
\* attempt, of a method that is not allowed, or of a status that qualifies
\* for a retry by itself.
C40_CallbackOnlyWhenUndecided ==
    /\ Cardinality({i \in DOMAIN history : CallbackCalled(history[i])})
           <= Cardinality({i \in DOMAIN history : GotResponse(history[i])})
    /\ \A i \in DOMAIN history :
           CallbackCalled(history[i])
               => /\ GotResponse(history[i])
                  /\ retry_options.evaluate_response_callback
                  /\ history[i].attempt # retry_options.attempts
                  /\ MethodAllowed(history[i])
                  /\ ~EligibleStatus(history[i].status)

\* The callback asked for a retry of the first response; the response of the
\* last allowed attempt was returned without asking it.
C40_Witness ==
    /\ pc = "success"
    /\ retry_options.evaluate_response_callback
    /\ Len(history) = retry_options.attempts
    /\ Len(history) >= 2
    /\ history[1].cb = "false"
    /\ Last(history).cb = "not_called"
    /\ Last(history).status = 200
    /\ MethodAllowed(Last(history))
====
